---- MODULE Spec2Model ----
(***************************************************************************)
(* Model of GenericDatabaseConnector (src/generic_database_connector.py)   *)
(* and GenericDatabaseManager (src/generic_database_manager.py).           *)
(*                                                                         *)
(* One Connector instance and the driver behind it.  The driver is the     *)
(* environment: it accepts or refuses a connect call, a handle it gave out *)
(* may stop answering, and every call on a handle may raise.               *)
(*                                                                         *)
(* Strings that the code inspects character by character (backend names,   *)
(* ${NAME} placeholders, port values) are sequences of one-character       *)
(* strings.                                                                *)
(***************************************************************************)
EXTENDS Integers, Sequences, FiniteSets, TLC

(***************************************************************************)
(* Bounds of the model.                                                    *)
(***************************************************************************)
\* handles the driver hands out in one behaviour
MaxHandles == 2

(***************************************************************************)
(* Python values: str, int and None in one record shape, and list as the   *)
(* record of its items.                                                    *)
(***************************************************************************)
PyStr(s) == [kind |-> "str", s |-> s, n |-> 0]
PyInt(n) == [kind |-> "int", s |-> <<>>, n |-> n]
PyNone == [kind |-> "none", s |-> <<>>, n |-> 0]
PyList(items) == [kind |-> "list", items |-> items]

\* bool(value): "", 0, None and [] are falsy
Truthy(v) ==
    CASE v.kind = "str" -> v.s # <<>>
      [] v.kind = "int" -> v.n # 0
      [] v.kind = "list" -> v.items # <<>>
      [] OTHER -> FALSE

\* str.startswith / str.endswith
StartsWith(s, p) == Len(s) >= Len(p) /\ SubSeq(s, 1, Len(p)) = p
EndsWith(s, p) == Len(s) >= Len(p) /\ SubSeq(s, Len(s) - Len(p) + 1, Len(s)) = p

UpperChars == <<"A","B","C","D","E","F","G","H","I","J","K","L","M","N","O","P","Q","R","S","T","U","V","W","X","Y","Z">>
LowerChars == <<"a","b","c","d","e","f","g","h","i","j","k","l","m","n","o","p","q","r","s","t","u","v","w","x","y","z">>

LowerChar(c) ==
    IF \E i \in 1..Len(UpperChars) : UpperChars[i] = c
    THEN LowerChars[CHOOSE i \in 1..Len(UpperChars) : UpperChars[i] = c]
    ELSE c

\* str.lower()
Lower(s) == [i \in 1..Len(s) |-> LowerChar(s[i])]

Digits == <<"0","1","2","3","4","5","6","7","8","9">>
IsDigit(c) == \E i \in 1..Len(Digits) : Digits[i] = c
DigitVal(c) == (CHOOSE i \in 1..Len(Digits) : Digits[i] = c) - 1

RECURSIVE DigitsToInt(_)
DigitsToInt(s) ==
    IF s = <<>> THEN 0
    ELSE 10 * DigitsToInt(SubSeq(s, 1, Len(s) - 1)) + DigitVal(s[Len(s)])

\* str.strip() of blanks, as int() does to its argument
RECURSIVE Strip(_)
Strip(s) ==
    IF s # <<>> /\ s[1] = " " THEN Strip(Tail(s))
    ELSE IF s # <<>> /\ s[Len(s)] = " " THEN Strip(SubSeq(s, 1, Len(s) - 1))
    ELSE s

\* the digits of an int() argument after its optional sign
Unsigned(s) == IF s # <<>> /\ s[1] \in {"+", "-"} THEN Tail(s) ELSE s

\* whether int(v) returns (an int, or a str of decimal digits with an
\* optional sign and blanks around it) or raises ValueError / TypeError
IntAccepts(v) ==
    \/ v.kind = "int"
    \/ /\ v.kind = "str"
       /\ Unsigned(Strip(v.s)) # <<>>
       /\ \A i \in 1..Len(Unsigned(Strip(v.s))) : IsDigit(Unsigned(Strip(v.s))[i])

\* int(v) where it returns
IntOf(v) ==
    IF v.kind = "int" THEN v.n
    ELSE IF Strip(v.s)[1] = "-" THEN 0 - DigitsToInt(Unsigned(Strip(v.s)))
    ELSE DigitsToInt(Unsigned(Strip(v.s)))

\* str(n) of an int
RECURSIVE IntToStr(_)
IntToStr(n) ==
    IF n < 0 THEN <<"-">> \o IntToStr(0 - n)
    ELSE IF n < 10 THEN <<Digits[n + 1]>>
    ELSE IntToStr(n \div 10) \o <<Digits[(n % 10) + 1]>>

(***************************************************************************)
(* dict as the ordered sequence of its items                               *)
(***************************************************************************)
Item(k, v) == [k |-> k, v |-> v]
HasKey(d, k) == \E i \in 1..Len(d) : d[i].k = k
GetKey(d, k) == d[CHOOSE i \in 1..Len(d) : d[i].k = k].v
SetKey(d, k, v) ==
    IF HasKey(d, k)
    THEN [i \in 1..Len(d) |-> IF d[i].k = k THEN Item(k, v) ELSE d[i]]
    ELSE Append(d, Item(k, v))
\* dict.get(k): None when the key is missing
GetOrNone(d, k) == IF HasKey(d, k) THEN GetKey(d, k) ELSE PyNone

(***************************************************************************)
(* Backend names, as the caller may write them, and the names the code     *)
(* compares db_type with.                                                  *)
(***************************************************************************)
mysql == <<"m","y","s","q","l">>
postgresql == <<"p","o","s","t","g","r","e","s","q","l">>
oracle == <<"o","r","a","c","l","e">>
db2 == <<"d","b","2">>
sqlserver == <<"s","q","l","s","e","r","v","e","r">>
netezza == <<"n","e","t","e","z","z","a">>
sqlite == <<"s","q","l","i","t","e">>
mongodb == <<"m","o","n","g","o","d","b">>
elasticsearch == <<"e","s">>
cassandra == <<"c","a","s","s","a","n","d","r","a">>
milvus == <<"m","i","l","v","u","s">>
warehouse == <<"d","w","h">>
redis == <<"r","e","d","i","s">>
MySQL == <<"M","y","S","Q","L">>
unknownDb == <<"u","n","k","n","o","w","n","D","b">>

\* the backend names a caller passes to the constructor
BackendNames ==
    {mysql, MySQL, db2, sqlite, mongodb, elasticsearch, cassandra, milvus,
     warehouse, redis, unknownDb}

\* the name of the one environment variable the configuration refers to
DB_PORT == <<"D","B","_","P","O","R","T">>
\* "${DB_PORT}"
DB_PORT_REF == <<"$","{">> \o DB_PORT \o <<"}">>

\* the values the environment gives DB_PORT (unset, numeric, not numeric)
EnvChoices ==
    { <<>>,
      <<Item(DB_PORT, <<"5","4","3","2">>)>>,
      <<Item(DB_PORT, <<"a","b","c">>)>> }

Cfg(type, params, has_default, default_port) ==
    [type |-> type, connection_params |-> params,
     has_default_port |-> has_default, default_port |-> default_port]

\* config of a Connector that was not constructed
NoConfig == Cfg("", <<>>, FALSE, PyNone)

\* all_configs['databases']: one backend per branch of connect() and of
\* _connect_relational(), with the port given as a placeholder, as a number,
\* as a numeric string, or not at all, with and without default_port
ConfigSource ==
    << Item(mysql, Cfg("relational",
                       <<Item("host", PyStr(<<"d","b">>)), Item("port", PyStr(DB_PORT_REF)),
                         Item("database", PyStr(<<"t">>))>>,
                       TRUE, PyInt(3306))),
       Item(db2, Cfg("relational",
                     <<Item("hostname", PyStr(<<"d","b">>)), Item("port", PyStr(DB_PORT_REF))>>,
                     FALSE, PyNone)),
       Item(sqlite, Cfg("relational",
                        <<Item("database", PyStr(<<"t">>))>>,
                        FALSE, PyNone)),
       Item(mongodb, Cfg("nosql_document",
                         <<Item("host", PyStr(<<"d","b">>)), Item("port", PyInt(27017)),
                           Item("database", PyStr(<<"t">>))>>,
                         TRUE, PyInt(27017))),
       Item(elasticsearch, Cfg("nosql_search",
                               <<Item("hosts", PyStr(<<"d","b">>))>>,
                               FALSE, PyNone)),
       Item(cassandra, Cfg("nosql_wide_column",
                           <<Item("contact_points", PyStr(<<"d","b">>)),
                             Item("port", PyStr(DB_PORT_REF))>>,
                           TRUE, PyInt(9042))),
       Item(milvus, Cfg("vector_database",
                        <<Item("host", PyStr(<<"d","b">>)),
                          Item("port", PyStr(<<"1","9","5","3","0">>))>>,
                        TRUE, PyInt(19530))),
       Item(warehouse, Cfg("data_warehouse",
                           <<Item("host", PyStr(<<"d","b">>)), Item("port", PyStr(DB_PORT_REF))>>,
                           FALSE, PyNone)),
       Item(redis, Cfg("nosql_key_value",
                       <<Item("host", PyStr(<<"d","b">>)), Item("port", PyInt(6379))>>,
                       TRUE, PyInt(6379))) >>

\* the attributes a driver's connection object exposes: hasattr(connection, ...)
TeardownCaps == {"close", "disconnect", "both", "none"}
ProbeCaps == {"is_connected", "closed", "none"}
NoDriver == [teardown |-> "none", probe |-> "none"]

(***************************************************************************)
(* State                                                                   *)
(***************************************************************************)
VARIABLES
    constructed,    \* a Connector instance exists
    db_type,        \* self.db_type
    config,         \* self.config
    driver_module,  \* self.driver_module: what its connection objects expose
    connection,     \* self.connection: 0 is None, n > 0 the n-th handle opened
    nOpened,        \* handles the driver has handed out
    released,       \* handles that disconnect() has cleared, torn down or not
    linkState,      \* the held handle at the driver: "alive", "dead", "faulty", "none"
    env,            \* os.environ
    scope,          \* "out", or "in" a with-block on the Connector
    scopeHandle,    \* the handle __enter__ opened (0: none)
    last,           \* the last call, what it returned and the driver calls it made
    store,          \* the entries stored behind the handle (followed in DataSpec)
    handed          \* the port the first connect() that called the driver handed it
                    \* (followed in ReconnectSpec)

vars == <<constructed, db_type, config, driver_module, connection, nOpened,
          released, linkState, env, scope, scopeHandle, last, store,
          handed>>

instance == <<constructed, db_type, config, driver_module>>
handle == <<connection, nOpened, released, linkState>>
withBlock == <<scope, scopeHandle>>

\* the record of a call: op, its return value (h: the handle returned, 0 for
\* None), the exception that reached the caller and the one the call caught
\* ("" for none), the driver calls made and whether the last of them raised,
\* the methods of the Connector it went through, its argument, and, for
\* is_connected() and disconnect(), the call before it when that was
\* connect() or disconnect()
CallWith(op, ret, h, raised, caught, calls, driver, via, arg, inp, out) ==
    [op |-> op, ret |-> ret, h |-> h, raised |-> raised, caught |-> caught,
     calls |-> calls, driver |-> driver, via |-> via, arg |-> arg,
     prev |-> IF op \in {"is_connected", "disconnect"} /\ last.op \in {"connect", "disconnect"}
              THEN <<last.op, last.ret, last.driver>>
              ELSE <<"other", "", "">>,
     inp |-> inp, out |-> out]

\* the record of a call whose arguments and result are not kept
Call(op, ret, h, raised, caught, calls, driver, via, arg) ==
    CallWith(op, ret, h, raised, caught, calls, driver, via, arg, <<>>, <<>>)

Init ==
    /\ constructed = FALSE
    /\ db_type = <<>>
    /\ config = NoConfig
    /\ driver_module = NoDriver
    /\ connection = 0
    /\ nOpened = 0
    /\ released = {}
    /\ linkState = "none"
    /\ env \in EnvChoices
    /\ scope = "out"
    /\ scopeHandle = 0
    /\ last = [op |-> "init", ret |-> "", h |-> 0, raised |-> "", caught |-> "",
               calls |-> <<>>, driver |-> "", via |-> <<>>, arg |-> PyNone,
               prev |-> <<"other", "", "">>, inp |-> <<>>, out |-> <<>>]
    /\ store = <<>>
    /\ handed = PyNone

(***************************************************************************)
(* __init__, _load_config, _import_driver                                  *)
(***************************************************************************)
\* _load_config that falls back to the first backend for an unknown name
LoadConfig_Fallback(name) ==
    [ok |-> TRUE,
     config |-> IF HasKey(ConfigSource, name) THEN GetKey(ConfigSource, name)
                ELSE ConfigSource[1].v]

\* _load_config: the entry of db_type in all_configs['databases'], or ValueError
LoadConfig(name) ==
    IF HasKey(ConfigSource, name)
    THEN [ok |-> TRUE, config |-> GetKey(ConfigSource, name)]
    ELSE [ok |-> FALSE, config |-> NoConfig]

\* __init__(db_type): lower-cases the name, loads its configuration and
\* imports the driver; an exception of either step leaves no instance.  The
\* configuration file is taken to be readable and well formed.  imported:
\* importlib finds the driver; td, pr: what the connection objects of the
\* imported driver expose (pr is read on the relational family only)
Construct ==
    /\ ~constructed
    /\ \E name \in BackendNames, imported \in BOOLEAN,
          td \in TeardownCaps, pr \in ProbeCaps :
        LET lowered == Lower(name)
            loaded == LoadConfig(lowered)
        IN  /\ (loaded.ok /\ loaded.config.type # "relational") => pr = "none"
            /\ (~loaded.ok \/ ~imported) => (td = "none" /\ pr = "none")
            /\ ~loaded.ok => imported
            /\ IF loaded.ok /\ imported
               THEN /\ constructed' = TRUE
                    /\ db_type' = lowered
                    /\ config' = loaded.config
                    /\ driver_module' = [teardown |-> td, probe |-> pr]
                    /\ last' = Call("construct", "instance", 0, "", "", <<"import">>, "ok", <<>>,
                                    PyStr(name))
               ELSE /\ UNCHANGED instance
                    /\ last' = Call("construct", "", 0,
                                    IF loaded.ok THEN "ImportError" ELSE "ValueError", "",
                                    IF loaded.ok THEN <<"import">> ELSE <<>>,
                                    IF loaded.ok THEN "raised" ELSE "", <<>>, PyStr(name))
    /\ UNCHANGED <<handle, env, withBlock, store, handed>>


(***************************************************************************)
(* connect()                                                               *)
(***************************************************************************)
Bool(b) == IF b THEN "True" ELSE "False"

\* os.getenv(name, "")
Getenv(e, name) == IF HasKey(e, name) THEN GetKey(e, name) ELSE <<>>

\* _resolve_env_vars, lines 115-117, on a str: one that starts with "${" and
\* ends with "}" becomes os.getenv(value[2:-1], "")
ResolveStr(v, e) ==
    IF StartsWith(v.s, <<"$","{">>) /\ EndsWith(v.s, <<"}">>)
    THEN PyStr(Getenv(e, SubSeq(v.s, 3, Len(v.s) - 1)))
    ELSE v

\* _resolve_env_vars, one value: a str as above; a list item by item, the
\* str items as above and the others as they are; any other value as it is
ResolveValue(v, e) ==
    IF v.kind = "str" THEN ResolveStr(v, e)
    ELSE IF v.kind = "list"
         THEN PyList([i \in 1..Len(v.items) |->
                        IF v.items[i].kind = "str" THEN ResolveStr(v.items[i], e)
                        ELSE v.items[i]])
    ELSE v

\* _resolve_env_vars(params)
ResolveEnvVars(params, e) ==
    [i \in 1..Len(params) |-> Item(params[i].k, ResolveValue(params[i].v, e))]

\* connect(), lines 136-147: the port, when present and truthy, becomes
\* int(port), or default_port when int() raises, or the step raises ValueError
CoercePort(params, cfg) ==
    IF HasKey(params, "port") /\ Truthy(GetKey(params, "port"))
    THEN IF IntAccepts(GetKey(params, "port"))
         THEN [ok |-> TRUE, params |-> SetKey(params, "port", PyInt(IntOf(GetKey(params, "port"))))]
         ELSE IF cfg.has_default_port
              THEN [ok |-> TRUE, params |-> SetKey(params, "port", cfg.default_port)]
              ELSE [ok |-> FALSE, params |-> params]
    ELSE [ok |-> TRUE, params |-> params]

\* repr() of a list item: a str in quotes (none of the strings here holds a
\* quote or a backslash), an int as str() gives it, None
Repr(v) ==
    IF v.kind = "str" THEN <<"'">> \o v.s \o <<"'">>
    ELSE IF v.kind = "int" THEN IntToStr(v.n)
    ELSE <<"None">>

\* ", ".join(repr(item) for item in items)
RECURSIVE ReprItems(_)
ReprItems(items) ==
    IF items = <<>> THEN <<>>
    ELSE IF Len(items) = 1 THEN Repr(items[1])
    ELSE Repr(items[1]) \o <<",", " ">> \o ReprItems(Tail(items))

\* f"{value}": str(value)
Format(v) ==
    IF v.kind = "str" THEN v.s
    ELSE IF v.kind = "int" THEN IntToStr(v.n)
    ELSE IF v.kind = "list" THEN <<"[">> \o ReprItems(v.items) \o <<"]">>
    ELSE <<"None">>

\* _build_connection_string that leaves out its "if value" test
KeepItem_All(item) == TRUE

\* _build_connection_string, line 246: "if value"
KeepItem(item) == Truthy(item.v)

\* _build_connection_string, lines 244-247: parts, one f"{key}={value}" for
\* each item whose value is truthy, in the order of the items; a key is one
\* element of the text
ConnStrParts(params) ==
    LET kept == SelectSeq(params, KeepItem)
    IN  [i \in 1..Len(kept) |-> <<kept[i].k, "=">> \o Format(kept[i].v)]

\* sep.join(parts)
RECURSIVE Join(_, _)
Join(parts, sep) ==
    IF parts = <<>> THEN <<>>
    ELSE IF Len(parts) = 1 THEN parts[1]
    ELSE parts[1] \o sep \o Join(Tail(parts), sep)

\* _build_connection_string(params)
BuildConnectionString(params) == Join(ConnStrParts(params), <<";">>)

\* _connect_relational that passes keyword arguments whatever the dialect
ConnectRelational_AllKwargs(name) == "connect(**params)"

\* _connect_relational: the driver entry point used for db_type, "" when the
\* function raises ValueError
ConnectRelational(name) ==
    IF name = mysql THEN "connect(**params)"
    ELSE IF name = postgresql THEN "connect(**params)"
    ELSE IF name = oracle THEN "connect(**params)"
    ELSE IF name \in {db2, sqlserver, netezza} THEN "connect(conn_str)"
    ELSE ""

\* whether params[k] is there for every k the strategy subscripts
HasKeys(params, ks) == \A k \in ks : HasKey(params, k)

\* connect(), lines 149-163: the strategy of config['type']: the driver entry
\* point it calls, "" when the dispatch raises ValueError
Strategy(cfg, name) ==
    IF cfg.type = "relational" THEN ConnectRelational(name)
    ELSE IF cfg.type = "nosql_document" THEN "MongoClient"
    ELSE IF cfg.type = "nosql_search" THEN "Elasticsearch"
    ELSE IF cfg.type = "nosql_wide_column" THEN "Cluster.connect"
    ELSE IF cfg.type = "vector_database" THEN "connections.connect"
    ELSE IF cfg.type = "data_warehouse" THEN "connect(conn_str)"
    ELSE ""

\* connect(), lines 149-163: the _connect_* method the dispatch calls, "" when
\* it calls none and raises ValueError
StrategyFn(cfg) ==
    IF cfg.type = "relational" THEN "_connect_relational"
    ELSE IF cfg.type = "nosql_document" THEN "_connect_nosql_document"
    ELSE IF cfg.type = "nosql_search" THEN "_connect_nosql_search"
    ELSE IF cfg.type = "nosql_wide_column" THEN "_connect_nosql_wide_column"
    ELSE IF cfg.type = "vector_database" THEN "_connect_vector_database"
    ELSE IF cfg.type = "data_warehouse" THEN "_connect_data_warehouse"
    ELSE ""

\* the parameters a strategy subscripts (KeyError when one is missing)
RequiredKeys(cfg) ==
    IF cfg.type = "nosql_document" THEN {"host", "port"}
    ELSE IF cfg.type = "nosql_search" THEN {"hosts"}
    ELSE IF cfg.type = "nosql_wide_column" THEN {"contact_points", "port"}
    ELSE IF cfg.type = "vector_database" THEN {"host", "port"}
    ELSE {}

\* connect() that catches ValueError alone
ConnectCatches_ValueError(failure) == failure \in {"", "port", "strategy"}

\* except Exception: every failure of connect()'s try block is caught
ConnectCatches(failure) == TRUE

\* the body of connect()'s try block; accepts: the driver returns a handle
\* rather than raising.  via: the _connect_* method the dispatch called.  caught: "port" (the port cannot be coerced),
\* "strategy" (no strategy for the backend), "params" (a parameter the
\* strategy reads is missing), "driver" (the driver raised), "" (none)
ConnectAttempt(cfg, name, e, accepts) ==
    LET coerced == CoercePort(ResolveEnvVars(cfg.connection_params, e), cfg)
        failure == IF ~coerced.ok THEN "port"
                   ELSE IF Strategy(cfg, name) = "" THEN "strategy"
                   ELSE IF ~HasKeys(coerced.params, RequiredKeys(cfg)) THEN "params"
                   ELSE IF ~accepts THEN "driver"
                   ELSE ""
    IN  [ok |-> failure = "",
         caught |-> IF ConnectCatches(failure) THEN failure ELSE "",
         raised |-> IF ConnectCatches(failure) THEN "" ELSE failure,
         calls |-> IF failure \in {"", "driver"} THEN <<Strategy(cfg, name)>> ELSE <<>>,
         via |-> IF coerced.ok /\ StrategyFn(cfg) # "" THEN <<StrategyFn(cfg)>> ELSE <<>>,
         port |-> IF coerced.ok THEN GetOrNone(coerced.params, "port") ELSE PyNone]

\* connect() that obtains the handle and does not keep it
ConnectHandle_NotStored(attempt, opened) == 0

\* what connect() leaves in self.connection: the new handle, or None after
\* the except branch
ConnectHandle(attempt, opened) == IF attempt.ok THEN opened + 1 ELSE 0

\* connect() as a step on the handle state; an exception that is not caught
\* leaves self.connection as it was
DoConnect(attempt) ==
    IF attempt.raised # ""
    THEN UNCHANGED handle
    ELSE /\ connection' = ConnectHandle(attempt, nOpened)
         /\ nOpened' = IF attempt.ok THEN nOpened + 1 ELSE nOpened
         /\ linkState' = IF ConnectHandle(attempt, nOpened) # 0 THEN "alive" ELSE "none"
         /\ UNCHANGED released

\* the outcome of the driver calls of a call: "" when it made none
Outcome(calls, raises) == IF calls = <<>> THEN "" ELSE IF raises THEN "raised" ELSE "ok"

\* connect() that keeps the resolved parameters in self.config
ConfigAfterConnect_InPlace(cfg, e) ==
    [cfg EXCEPT !.connection_params = CoercePort(ResolveEnvVars(cfg.connection_params, e), cfg).params]

\* self.config after connect(): _resolve_env_vars writes into a dict of its
\* own (line 113) and lines 138-144 assign the port in that dict, so the
\* loaded configuration is as it was
ConfigAfterConnect(cfg, e) == cfg

\* connect(); the driver is asked only when the attempt gets as far as
\* calling it
ConnectStep ==
    /\ constructed
    /\ nOpened < MaxHandles
    /\ \E accepts \in BOOLEAN :
        LET attempt == ConnectAttempt(config, db_type, env, accepts)
        IN  /\ ~accepts => attempt.calls # <<>>
            /\ DoConnect(attempt)
            /\ last' = Call("connect",
                            IF attempt.raised # "" THEN "" ELSE Bool(attempt.ok),
                            ConnectHandle(attempt, nOpened), attempt.raised, attempt.caught,
                            attempt.calls, Outcome(attempt.calls, ~accepts), attempt.via,
                            attempt.port)
    /\ config' = ConfigAfterConnect(config, env)
    /\ UNCHANGED <<constructed, db_type, driver_module, env, withBlock, store>>

\* connect() in Spec, where the ports of earlier calls are not followed
Connect == ConnectStep /\ UNCHANGED handed

(***************************************************************************)
(* disconnect()                                                            *)
(***************************************************************************)
\* lines 254-257: the teardown method disconnect() calls on the handle
TeardownMethod(dm) ==
    IF dm.teardown \in {"close", "both"} THEN <<"close">>
    ELSE IF dm.teardown = "disconnect" THEN <<"disconnect">>
    ELSE <<>>

\* disconnect() without its "if self.connection" test
DisconnectCalls_NoGuard(conn, dm) == TeardownMethod(dm)

\* the driver calls of disconnect(): none without a handle (a handle is an
\* object of the driver and counts as true)
DisconnectCalls(conn, dm) == IF conn # 0 THEN TeardownMethod(dm) ELSE <<>>

\* disconnect() that clears the handle after the teardown call instead of in
\* a finally clause
DisconnectHandle_KeptOnRaise(conn, teardownRaises) == IF teardownRaises THEN conn ELSE 0

\* self.connection after disconnect(): the finally clause clears it, also
\* when the teardown call raised
DisconnectHandle(conn, teardownRaises) == 0

\* disconnect() as a step on the handle state
DoDisconnect(teardownRaises) ==
    /\ connection' = DisconnectHandle(connection, teardownRaises)
    /\ released' = IF connection # 0 /\ DisconnectHandle(connection, teardownRaises) = 0
                   THEN released \cup {connection} ELSE released
    /\ linkState' = IF DisconnectHandle(connection, teardownRaises) = 0
                    THEN "none" ELSE linkState
    /\ UNCHANGED nOpened

\* teardownRaises: the close()/disconnect() call of the driver raises
Disconnect ==
    /\ constructed
    /\ \E teardownRaises \in BOOLEAN :
        /\ teardownRaises => DisconnectCalls(connection, driver_module) # <<>>
        /\ DoDisconnect(teardownRaises)
        /\ last' = Call("disconnect", "None", 0, "", "",
                        DisconnectCalls(connection, driver_module),
                        Outcome(DisconnectCalls(connection, driver_module), teardownRaises),
                        <<>>, PyNone)
    /\ UNCHANGED <<instance, env, withBlock, store, handed>>

(***************************************************************************)
(* is_connected(), get_connection()                                        *)
(***************************************************************************)
\* lines 277-288: the liveness probe is_connected() makes on the handle
ProbeCall(cfg, dm) ==
    IF cfg.type = "relational"
    THEN IF dm.probe = "is_connected" THEN <<"is_connected">>
         ELSE IF dm.probe = "closed" THEN <<"closed">>
         ELSE <<>>
    ELSE IF cfg.type = "nosql_document" THEN <<"admin.command(ping)">>
    ELSE IF cfg.type = "nosql_search" THEN <<"ping">>
    ELSE <<>>

\* the driver calls of is_connected(): none without a handle
IsConnectedCalls(conn, cfg, dm) == IF conn = 0 THEN <<>> ELSE ProbeCall(cfg, dm)

\* what the driver answers to a probe on the held handle: "yes" while the
\* handle is alive, "raise" once it is faulty; on a dead handle the ping
\* command of the document driver raises and every other probe answers "no"
DriverAnswer(probe, link) ==
    IF link = "alive" THEN "yes"
    ELSE IF link = "faulty" THEN "raise"
    ELSE IF probe = "admin.command(ping)" THEN "raise"
    ELSE "no"

\* is_connected() that makes no probe
IsConnected_HandleOnly(conn, cfg, dm, link) == conn # 0

\* is_connected(): False without a handle; the family's probe where there is
\* one, False when it raises; True where there is none
IsConnected(conn, cfg, dm, link) ==
    IF conn = 0 THEN FALSE
    ELSE IF cfg.type = "relational"
         THEN IF dm.probe = "is_connected"
              THEN DriverAnswer("is_connected", link) = "yes"
              ELSE IF dm.probe = "closed"
                   THEN DriverAnswer("closed", link) = "yes"
                   ELSE TRUE
    ELSE IF cfg.type = "nosql_document"
         THEN DriverAnswer("admin.command(ping)", link) # "raise"
    ELSE IF cfg.type = "nosql_search"
         THEN DriverAnswer("ping", link) = "yes"
    ELSE TRUE

\* get_connection() that returns self.connection unchecked
GetConnection_Unchecked(conn, cfg, dm, link) == conn

\* get_connection(): the handle when is_connected(), else None (0)
GetConnection(conn, cfg, dm, link) ==
    IF ~IsConnected(conn, cfg, dm, link) THEN 0 ELSE conn

\* whether the probe is_connected() makes raises (and is caught)
ProbeRaises(conn, cfg, dm, link) ==
    /\ IsConnectedCalls(conn, cfg, dm) # <<>>
    /\ DriverAnswer(IsConnectedCalls(conn, cfg, dm)[1], link) = "raise"

\* is_connected() that drops the handle when it finds it unusable
HandleAfterProbe_Dropped(conn, cfg, dm, link) ==
    IF IsConnected(conn, cfg, dm, link) THEN conn ELSE 0

\* self.connection after is_connected(), lines 272-294: the method reads the
\* handle and returns; neither the early return nor the except branch
\* assigns it
HandleAfterProbe(conn, cfg, dm, link) == conn

IsConnectedCall ==
    /\ constructed
    /\ last' = Call("is_connected",
                    Bool(IsConnected(connection, config, driver_module, linkState)), 0, "", "",
                    IsConnectedCalls(connection, config, driver_module),
                    Outcome(IsConnectedCalls(connection, config, driver_module),
                            ProbeRaises(connection, config, driver_module, linkState)),
                    <<>>, PyNone)
    /\ connection' = HandleAfterProbe(connection, config, driver_module, linkState)
    /\ UNCHANGED <<instance, nOpened, released, linkState, env, withBlock, store, handed>>

GetConnectionCall ==
    /\ constructed
    /\ last' = Call("get_connection",
                    IF GetConnection(connection, config, driver_module, linkState) = 0
                    THEN "None" ELSE "connection",
                    GetConnection(connection, config, driver_module, linkState), "", "",
                    IsConnectedCalls(connection, config, driver_module),
                    Outcome(IsConnectedCalls(connection, config, driver_module),
                            ProbeRaises(connection, config, driver_module, linkState)),
                    <<"is_connected">>, PyNone)
    /\ connection' = HandleAfterProbe(connection, config, driver_module, linkState)
    /\ UNCHANGED <<instance, nOpened, released, linkState, env, withBlock, store, handed>>

(***************************************************************************)
(* GenericDatabaseManager: insert_one, find_all, update_one, delete_one,   *)
(* as calls on the Connector and on the driver.  What the calls do to the  *)
(* stored data is followed further down, in DataSpec.                      *)
(***************************************************************************)
Verbs == {"insert_one", "find_all", "update_one", "delete_one"}

\* the driver calls of a verb on the relational family, in order
RelationalPlan(verb) ==
    IF verb = "find_all"
    THEN <<"cursor", "execute", "fetchall", "cursor.close">>
    ELSE <<"cursor", "execute", "commit", "cursor.close">>

\* the driver call of a verb on the document family
DocumentPlan(verb) ==
    IF verb = "insert_one" THEN <<"insert_one">>
    ELSE IF verb = "find_all" THEN <<"find">>
    ELSE IF verb = "update_one" THEN <<"update_one">>
    ELSE <<"delete_one">>

\* the driver call of a verb on the search family
SearchPlan(verb) ==
    IF verb = "insert_one" THEN <<"index">>
    ELSE IF verb = "find_all" THEN <<"search">>
    ELSE IF verb = "update_one" THEN <<"update_by_query">>
    ELSE <<"delete_by_query">>

\* the calls with which a verb reads or changes the stored data
CrudCalls ==
    {"cursor", "execute", "commit", "fetchall", "cursor.close", "insert_one", "find",
     "update_one", "delete_one", "index", "search", "update_by_query", "delete_by_query"}

\* verbs that take the warehouse family through the relational branch
Plan_WarehouseAsRelational(verb, cfg) ==
    IF cfg.type \in {"relational", "data_warehouse"} THEN RelationalPlan(verb)
    ELSE IF cfg.type = "nosql_document" THEN DocumentPlan(verb)
    ELSE IF cfg.type = "nosql_search" THEN SearchPlan(verb)
    ELSE <<>>

\* the driver calls the family branch of a verb sets out to make: none for
\* the families without a branch, and none on the document family when
\* config['connection_params']['database'] raises KeyError
Plan(verb, cfg) ==
    IF cfg.type = "relational" THEN RelationalPlan(verb)
    ELSE IF cfg.type = "nosql_document"
         THEN IF HasKey(cfg.connection_params, "database") THEN DocumentPlan(verb) ELSE <<>>
    ELSE IF cfg.type = "nosql_search" THEN SearchPlan(verb)
    ELSE <<>>

\* a verb that checks only that a handle is there
VerbGuard_HandleOnly(conn, cfg, dm, link) == conn # 0

\* lines 63-65 (and 126, 205, 284): the verb goes on only if is_connected()
VerbGuard(conn, cfg, dm, link) == IsConnected(conn, cfg, dm, link)

\* except Exception: every failure of the family branch is caught
VerbCatches(failed) == TRUE

\* the driver calls a verb sets out to make after its guard
VerbPlan(verb, conn, cfg, dm, link) ==
    IF VerbGuard(conn, cfg, dm, link) THEN Plan(verb, cfg) ELSE <<>>

\* a verb of the manager; failAt = k > 0: the k-th driver call of the family
\* branch raises.  ret: "value" for the result of the family branch, "None"
\* otherwise; raised: the exception that reaches the caller
Verb(verb, conn, cfg, dm, link, failAt) ==
    LET plan == VerbPlan(verb, conn, cfg, dm, link)
        made == IF failAt > 0 THEN SubSeq(plan, 1, failAt) ELSE plan
        failed == failAt > 0
    IN  [ret |-> IF plan # <<>> /\ ~failed THEN "value"
                 ELSE IF failed /\ ~VerbCatches(failed) THEN "" ELSE "None",
         raised |-> IF failed /\ ~VerbCatches(failed) THEN "driver" ELSE "",
         caught |-> IF failed /\ VerbCatches(failed) THEN "driver" ELSE "",
         calls |-> IsConnectedCalls(conn, cfg, dm) \o made,
         driver |-> Outcome(IsConnectedCalls(conn, cfg, dm) \o made,
                            failed \/ (made = <<>> /\ ProbeRaises(conn, cfg, dm, link))),
         via |-> <<"is_connected">>]

VerbCall ==
    /\ constructed
    /\ \E verb \in Verbs, failAt \in 0..4 :
        LET r == Verb(verb, connection, config, driver_module, linkState, failAt)
        IN  /\ failAt <= Len(VerbPlan(verb, connection, config, driver_module, linkState))
            /\ last' = Call(verb, r.ret, 0, r.raised, r.caught, r.calls, r.driver, r.via,
                            PyNone)
    /\ connection' = HandleAfterProbe(connection, config, driver_module, linkState)
    /\ UNCHANGED <<instance, nOpened, released, linkState, env, withBlock, store, handed>>

(***************************************************************************)
(* __enter__, __exit__: with GenericDatabaseConnector(...) as db           *)
(***************************************************************************)
\* the Connector methods __enter__ calls
EnterCalls == <<"connect">>

\* the Connector methods __exit__ calls; exc: the with-block raised
ExitCalls(exc) == <<"disconnect">>

\* __enter__: connect(), whatever it returns, then the block is entered; an
\* exception out of connect() would leave the with statement before the block
ScopeEnter ==
    /\ constructed
    /\ scope = "out"
    /\ nOpened < MaxHandles
    /\ \E accepts \in BOOLEAN :
        LET attempt == ConnectAttempt(config, db_type, env, accepts)
        IN  /\ ~accepts => attempt.calls # <<>>
            /\ DoConnect(attempt)
            /\ scopeHandle' = IF attempt.raised # "" THEN scopeHandle
                              ELSE ConnectHandle(attempt, nOpened)
            /\ scope' = IF attempt.raised # "" THEN scope ELSE "in"
            /\ last' = Call("__enter__", IF attempt.raised # "" THEN "" ELSE "self",
                            ConnectHandle(attempt, nOpened), attempt.raised,
                            attempt.caught, attempt.calls,
                            Outcome(attempt.calls, ~accepts), EnterCalls, attempt.port)
    /\ config' = ConfigAfterConnect(config, env)
    /\ UNCHANGED <<constructed, db_type, driver_module, env, store, handed>>

\* __exit__: disconnect(); exc: the with-block raised.  __exit__ returns
\* None, so that exception goes on to the caller of the with statement
ScopeExit ==
    /\ scope = "in"
    /\ \E exc \in BOOLEAN, teardownRaises \in BOOLEAN :
        /\ teardownRaises => DisconnectCalls(connection, driver_module) # <<>>
        /\ DoDisconnect(teardownRaises)
        /\ last' = Call("__exit__", "None", 0, IF exc THEN "body" ELSE "", "",
                        DisconnectCalls(connection, driver_module),
                        Outcome(DisconnectCalls(connection, driver_module), teardownRaises),
                        ExitCalls(exc), PyNone)
    /\ scope' = "out"
    /\ UNCHANGED <<instance, env, scopeHandle, store, handed>>

(***************************************************************************)
(* The environment: the driver's side of the held handle, and os.environ   *)
(***************************************************************************)
\* the server goes away, or the handle starts raising on every call
DriverDrop ==
    /\ connection # 0
    /\ linkState = "alive"
    /\ linkState' \in {"dead", "faulty"}
    /\ last' = Call("env", "", 0, "", "", <<>>, "", <<>>, PyNone)
    /\ UNCHANGED <<instance, connection, nOpened, released, env, withBlock, store, handed>>

\* the value of DB_PORT changes
SetEnv ==
    /\ \E e \in EnvChoices : e # env /\ env' = e
    /\ last' = Call("env", "", 0, "", "", <<>>, "", <<>>, PyNone)
    /\ UNCHANGED <<instance, handle, withBlock, store, handed>>

Next ==
    \/ Construct
    \/ Connect
    \/ Disconnect
    \/ IsConnectedCall
    \/ GetConnectionCall
    \/ VerbCall
    \/ ScopeEnter
    \/ ScopeExit
    \/ DriverDrop
    \/ SetEnv

Spec == Init /\ [][Next]_vars

(***************************************************************************)
(* _resolve_env_vars and _build_connection_string on their own: a          *)
(* Connector whose connection_params range over mappings of str, int, None *)
(* and list values, in an environment that sets some of the variables.     *)
(***************************************************************************)
\* "${H}", "${U}" (U is never set), "${P}", "${H}:${P}", "${}", "${H", "H}"
RefH == <<"$","{","H","}">>
RefU == <<"$","{","U","}">>
RefP == <<"$","{","P","}">>
RefHP == <<"$","{","H","}",":","$","{","P","}">>
RefEmpty == <<"$","{","}">>
RefOpen == <<"$","{","H">>
RefClose == <<"H","}">>

\* the values of the three parameters of the mappings
HostInputs ==
    {PyStr(RefH), PyStr(RefU), PyStr(RefHP), PyStr(RefEmpty), PyStr(RefOpen),
     PyStr(RefClose), PyStr(<<"d","b">>), PyStr(<<>>), PyNone}
PortInputs ==
    {PyStr(RefP), PyStr(<<"5","4","3","2">>), PyStr(<<>>), PyInt(0), PyInt(5432), PyInt(0 - 1)}
HostsInputs ==
    {PyList(<<>>),
     PyList(<<PyStr(RefH), PyStr(<<"d","b">>), PyInt(7)>>),
     PyList(<<PyStr(RefHP), PyNone>>)}

ValueInputs(k) ==
    IF k = "host" THEN HostInputs ELSE IF k = "port" THEN PortInputs ELSE HostsInputs

ParamKeys == {"host", "port", "hosts"}

\* the orders in which a mapping may hold some of the keys
KeyOrders ==
    {ks \in UNION {[1..n -> ParamKeys] : n \in 0..Cardinality(ParamKeys)} :
        \A i, j \in DOMAIN ks : i # j => ks[i] # ks[j]}

\* the mappings: every order of every subset of the keys, every value
ParamInputs ==
    UNION {{d \in [1..Len(ks) -> UNION {{Item(k, v) : v \in ValueInputs(k)} : k \in ParamKeys}] :
               \A i \in 1..Len(ks) : d[i].k = ks[i]} : ks \in KeyOrders}

\* os.environ: nothing set; H; H and P; a variable named "H}:${P"
ParamEnvChoices ==
    { <<>>,
      <<Item(<<"H">>, <<"l","h">>)>>,
      <<Item(<<"H">>, <<"l","h">>), Item(<<"P">>, <<"5","4","3","2">>)>>,
      <<Item(<<"H","}",":","$","{","P">>, <<"w">>)>> }

\* a Connector constructed for a db2 (relational) or a warehouse backend with
\* one of the mappings as its connection_params
ParamInit ==
    /\ constructed = TRUE
    /\ \E b \in {<<db2, "relational">>, <<warehouse, "data_warehouse">>}, params \in ParamInputs :
          /\ db_type = b[1]
          /\ config = Cfg(b[2], params, FALSE, PyNone)
    /\ driver_module = [teardown |-> "close", probe |-> "none"]
    /\ connection = 0
    /\ nOpened = 0
    /\ released = {}
    /\ linkState = "none"
    /\ env \in ParamEnvChoices
    /\ scope = "out"
    /\ scopeHandle = 0
    /\ last = [op |-> "construct", ret |-> "instance", h |-> 0, raised |-> "", caught |-> "",
               calls |-> <<"import">>, driver |-> "ok", via |-> <<>>, arg |-> PyStr(db_type),
               prev |-> <<"other", "", "">>, inp |-> <<>>, out |-> <<>>]
    /\ store = <<>>
    /\ handed = PyNone

\* self._resolve_env_vars(self.config['connection_params']), as connect()
\* calls it at line 134
ResolveEnvVarsCall ==
    /\ constructed
    /\ last' = CallWith("_resolve_env_vars", "value", 0, "", "", <<>>, "", <<>>, PyNone,
                        config.connection_params,
                        ResolveEnvVars(config.connection_params, env))
    /\ UNCHANGED <<instance, handle, env, withBlock, store, handed>>

\* self._build_connection_string(params), as _connect_relational and
\* _connect_data_warehouse call it, on the connection_params as configured
BuildConnectionStringCall ==
    /\ constructed
    /\ last' = CallWith("_build_connection_string", "value", 0, "", "", <<>>, "", <<>>,
                        PyNone, config.connection_params,
                        BuildConnectionString(config.connection_params))
    /\ UNCHANGED <<instance, handle, env, withBlock, store, handed>>

ParamNext ==
    \/ ResolveEnvVarsCall
    \/ BuildConnectionStringCall

ParamSpec == ParamInit /\ [][ParamNext]_vars


(***************************************************************************)
(* connect() again and again on one Connector while the environment        *)
(* changes: a Connector of each backend whose port is a placeholder, and   *)
(* of two whose port is not, with the port of its first connect() kept.    *)
(***************************************************************************)
ReconnectBackends == {mysql, db2, cassandra, warehouse, mongodb, milvus}

ReconnectInit ==
    /\ constructed = TRUE
    /\ db_type \in ReconnectBackends
    /\ config = GetKey(ConfigSource, db_type)
    /\ driver_module \in {[teardown |-> "close",
                            probe |-> IF config.type = "relational" THEN pr ELSE "none"] :
                               pr \in {"is_connected", "none"}}
    /\ connection = 0
    /\ nOpened = 0
    /\ released = {}
    /\ linkState = "none"
    /\ env \in EnvChoices
    /\ scope = "out"
    /\ scopeHandle = 0
    /\ last = [op |-> "construct", ret |-> "instance", h |-> 0, raised |-> "", caught |-> "",
               calls |-> <<"import">>, driver |-> "ok", via |-> <<>>, arg |-> PyStr(db_type),
               prev |-> <<"other", "", "">>, inp |-> <<>>, out |-> <<>>]
    /\ store = <<>>
    /\ handed = PyNone

\* connect(), with the port the first call handed the driver kept
ConnectTracked ==
    /\ ConnectStep
    /\ handed' = IF handed = PyNone /\ last'.calls # <<>> THEN last'.arg ELSE handed

ReconnectNext ==
    \/ ConnectTracked
    \/ Disconnect
    \/ IsConnectedCall
    \/ VerbCall
    \/ SetEnv

ReconnectSpec == ReconnectInit /\ [][ReconnectNext]_vars

(***************************************************************************)
(* The data behind the handle.  The manager hands statements and native    *)
(* commands to the driver; the effect on the stored entries is the         *)
(* server's: SQL on the relational family, the collection methods of the   *)
(* document driver, the index API of the search driver.  An entry is a row *)
(* or a document of one target; 0 stands for NULL, or for a field a        *)
(* document does not have.                                                 *)
(***************************************************************************)
\* entries the server stores in one behaviour
MaxRows == 2

Targets == {"t", "u"}
Fields == {"a", "b"}

Keys(d) == [i \in 1..Len(d) |-> d[i].k]
Values(d) == [i \in 1..Len(d) |-> d[i].v]

\* the row or document a record makes
Row(record) == [f \in Fields |-> IF HasKey(record, f) THEN GetKey(record, f) ELSE 0]

\* seen: a search finds the entry (the index was refreshed after it came in)
Entry(target, row, seen) == [t |-> target, row |-> row, seen |-> seen]

\* the records, conditions, data and limits the callers pass
RecordInputs == {<<>>, <<Item("a", 1)>>, <<Item("a", 2), Item("b", 1)>>}
CondInputs == {<<>>, <<Item("a", 1)>>, <<Item("a", 1), Item("b", 1)>>}
DataInputs == {<<>>, <<Item("b", 1)>>, <<Item("a", 2)>>}
LimitInputs == {1, 2}

\* the entries of st that are not at the positions gone, in their order
Remove(st, gone) ==
    LET F[i \in 0..Len(st)] ==
            IF i = 0 THEN <<>>
            ELSE IF i \in gone THEN F[i - 1] ELSE Append(F[i - 1], st[i])
    IN  F[Len(st)]

\* the rows of st at the positions idxs, in their order
RowsAt(st, idxs) ==
    LET F[i \in 0..Len(st)] ==
            IF i = 0 THEN <<>>
            ELSE IF i \in idxs THEN Append(F[i - 1], st[i].row) ELSE F[i - 1]
    IN  F[Len(st)]

\* the first position of a set of positions, as a set
First(hits) == {i \in hits : \A j \in hits : i <= j}

\* _insert_one_relational that passes the values of the record in reverse
InsertStatement_Reversed(table, data) ==
    [verb |-> "INSERT", table |-> table, set |-> Keys(data), where |-> <<>>,
     params |-> [i \in 1..Len(data) |-> data[Len(data) + 1 - i].v]]

\* _insert_one_relational, lines 84-91: INSERT INTO table (columns) VALUES
\* (placeholders), executed with tuple(data.values())
InsertStatement(table, data) ==
    [verb |-> "INSERT", table |-> table, set |-> Keys(data), where |-> <<>>,
     params |-> Values(data)]

\* _update_one_relational that passes the condition values before the data
\* values
UpdateStatement_ConditionsFirst(table, conditions, data) ==
    [verb |-> "UPDATE", table |-> table, set |-> Keys(data), where |-> Keys(conditions),
     params |-> Values(conditions) \o Values(data)]

\* _update_one_relational, lines 227-236: UPDATE table SET col = ?, ... WHERE
\* col = ? AND ..., executed with the data values and then the condition values
UpdateStatement(table, conditions, data) ==
    [verb |-> "UPDATE", table |-> table, set |-> Keys(data), where |-> Keys(conditions),
     params |-> Values(data) \o Values(conditions)]

\* _delete_one_relational, lines 305-311: DELETE FROM table WHERE col = ? AND
\* ..., executed with tuple(conditions.values())
DeleteStatement(table, conditions) ==
    [verb |-> "DELETE", table |-> table, set |-> <<>>, where |-> Keys(conditions),
     params |-> Values(conditions)]

\* syntax.get('placeholder', '?'): the token that stands for a parameter
Placeholder == "?"

\* [token] * n
RECURSIVE Times(_, _)
Times(token, n) == IF n = 0 THEN <<>> ELSE <<token>> \o Times(token, n - 1)

\* "col = ?" for each key of a mapping, in key order, as words
RECURSIVE Terms(_)
Terms(d) == IF d = <<>> THEN <<>> ELSE <<d[1].k, "=", Placeholder>> \o Terms(Tail(d))

\* _insert_one_relational that writes a single placeholder whatever the record
InsertQuery_OneMark(table, data) ==
    <<"INSERT INTO", table, "(">> \o Keys(data) \o <<")", "VALUES", "(">>
        \o <<Placeholder>> \o <<")">>

\* _insert_one_relational, lines 84-88: the text of the query, as words (the
\* separators ", " left out)
InsertQuery(table, data) ==
    <<"INSERT INTO", table, "(">> \o Keys(data) \o <<")", "VALUES", "(">>
        \o Times(Placeholder, Len(data)) \o <<")">>

\* _update_one_relational, lines 227-232 (the separators ", " and " AND " left out)
UpdateQuery(table, conditions, data) ==
    <<"UPDATE", table, "SET">> \o Terms(data) \o <<"WHERE">> \o Terms(conditions)

\* _delete_one_relational, lines 305-308
DeleteQuery(table, conditions) == <<"DELETE FROM", table, "WHERE">> \o Terms(conditions)

\* the positions of a word in a query, in order
Positions(query, word) ==
    LET F[i \in 0..Len(query)] ==
            IF i = 0 THEN <<>>
            ELSE IF query[i] = word THEN Append(F[i - 1], i) ELSE F[i - 1]
    IN  F[Len(query)]

\* the column each placeholder of a query stands for, in the order of the
\* placeholders, as the server reads the query: in INSERT the i-th
\* placeholder of VALUES goes to the i-th name of the column list ("" when
\* the list has no i-th name), in SET and WHERE a placeholder goes to the
\* column of its term
MarkColumns(query) ==
    LET marks == Positions(query, Placeholder)
        open == Positions(query, "(")
        close == Positions(query, ")")
        cols == IF query[1] = "INSERT INTO"
                THEN SubSeq(query, open[1] + 1, close[1] - 1)
                ELSE <<>>
    IN  [i \in 1..Len(marks) |->
            IF query[1] = "INSERT INTO"
            THEN IF i <= Len(cols) THEN cols[i] ELSE ""
            ELSE query[marks[i] - 2]]

\* the server refuses a statement whose SET or WHERE clause has no term
SqlRejects(stmt) ==
    \/ stmt.verb = "UPDATE" /\ stmt.set = <<>>
    \/ stmt.verb \in {"UPDATE", "DELETE"} /\ stmt.where = <<>>

\* WHERE: each column equals the parameter bound to its placeholder; the
\* placeholders are bound in the order in which they stand in the statement
SqlMatches(row, stmt) ==
    \A i \in 1..Len(stmt.where) : row[stmt.where[i]] = stmt.params[Len(stmt.set) + i]

SqlHits(st, stmt) ==
    {i \in 1..Len(st) : st[i].t = stmt.table /\ SqlMatches(st[i].row, stmt)}

\* SET, and the column list of INSERT on a row of NULLs
SqlSet(row, stmt) ==
    [f \in Fields |->
        IF \E i \in 1..Len(stmt.set) : stmt.set[i] = f
        THEN stmt.params[CHOOSE i \in 1..Len(stmt.set) : stmt.set[i] = f]
        ELSE row[f]]

\* the stored entries after the statement
SqlExecute(st, stmt) ==
    IF stmt.verb = "INSERT"
    THEN Append(st, Entry(stmt.table, SqlSet([f \in Fields |-> 0], stmt), TRUE))
    ELSE IF stmt.verb = "UPDATE"
         THEN [i \in 1..Len(st) |->
                 IF i \in SqlHits(st, stmt)
                 THEN Entry(st[i].t, SqlSet(st[i].row, stmt), st[i].seen)
                 ELSE st[i]]
    ELSE Remove(st, SqlHits(st, stmt))

\* cursor.rowcount after the statement
SqlRowcount(st, stmt) ==
    IF stmt.verb = "INSERT" THEN 1 ELSE Cardinality(SqlHits(st, stmt))

\* a filter of the document driver, and the match query of the search
\* driver: the entry has each field of the mapping with that value
DocMatches(row, filter) == \A i \in 1..Len(filter) : row[filter[i].k] = filter[i].v

DocHits(st, coll, filter) ==
    {i \in 1..Len(st) : st[i].t = coll /\ st[i].seen /\ DocMatches(st[i].row, filter)}

\* {"$set": data} on a document
DocSet(row, data) == [f \in Fields |-> IF HasKey(data, f) THEN GetKey(data, f) ELSE row[f]]

\* collection.insert_one(data)
DocInsertOne(st, coll, data) == Append(st, Entry(coll, Row(data), TRUE))

\* _update_one_document that calls update_many: every document that matches
DocUpdateOne_Many(st, coll, filter, data) ==
    [i \in 1..Len(st) |->
        IF i \in DocHits(st, coll, filter)
        THEN Entry(st[i].t, DocSet(st[i].row, data), st[i].seen)
        ELSE st[i]]

\* collection.update_one(filter, {"$set": data}): the first document that
\* matches; modified_count: 1 when that changed it
DocUpdateOne(st, coll, filter, data) ==
    [i \in 1..Len(st) |->
        IF i \in First(DocHits(st, coll, filter))
        THEN Entry(st[i].t, DocSet(st[i].row, data), st[i].seen)
        ELSE st[i]]

DocModifiedCount(st, coll, filter, data) ==
    Cardinality({i \in First(DocHits(st, coll, filter)) : DocSet(st[i].row, data) # st[i].row})

\* _delete_one_document that calls delete_many: every document that matches
DocDeleteOne_Many(st, coll, filter) == Remove(st, DocHits(st, coll, filter))

\* collection.delete_one(filter): the first document that matches
DocDeleteOne(st, coll, filter) == Remove(st, First(DocHits(st, coll, filter)))

DocDeletedCount(st, coll, filter) == Cardinality(First(DocHits(st, coll, filter)))

\* index(index=..., document=data): stored, and found by a search only after
\* the next refresh of the index
SearchIndex(st, index, data) == Append(st, Entry(index, Row(data), FALSE))

\* the search server refuses a match query that does not name one field, and
\* a script of several assignments joined by blanks (lines 260-262)
SearchRejects(verb, conditions, data) ==
    \/ Len(conditions) # 1
    \/ verb = "update_one" /\ Len(data) # 1

\* update_by_query: every document the query finds
SearchUpdate(st, index, conditions, data) ==
    [i \in 1..Len(st) |->
        IF i \in DocHits(st, index, conditions)
        THEN Entry(st[i].t, DocSet(st[i].row, data), st[i].seen)
        ELSE st[i]]

\* delete_by_query: every document the query finds
SearchDelete(st, index, conditions) == Remove(st, DocHits(st, index, conditions))

\* the entries of a target that a read finds
Visible(st, target) == {i \in 1..Len(st) : st[i].t = target /\ st[i].seen}

Min(m, n) == IF m <= n THEN m ELSE n

\* the positions a read with a limit may return: on the document family the
\* first ones in natural order; SELECT ... LIMIT without ORDER BY and
\* match_all with a size return any limit of them
Picks(cfg, st, target, limit) ==
    LET found == Visible(st, target)
        size == Min(limit, Cardinality(found))
    IN  IF cfg.type = "nosql_document"
        THEN {{i \in found : Cardinality({j \in found : j < i}) < size}}
        ELSE {idxs \in SUBSET found : Cardinality(idxs) = size}

\* the place in the family's plan of the call that carries the statement
SendsAt(cfg) == IF cfg.type = "relational" THEN 2 ELSE 1

\* the write of a verb is in the stored data: on the relational family when
\* commit() returned (a failed commit is taken to roll back), on the others
\* when the driver call returned
Took(cfg, plan, failAt) ==
    plan # <<>> /\ (failAt = 0 \/ (cfg.type = "relational" /\ failAt > 3))

\* the arguments and the result of a verb, as kept in last
VerbInp(target, record, conditions, data, limit) ==
    [target |-> target, record |-> record, conditions |-> conditions, data |-> data,
     limit |-> limit]
VerbOut(took, count, rows) == [took |-> took, count |-> count, rows |-> rows]

\* insert_one(table_or_collection, data); lastrowid: the cursor has the
\* attribute.  One behaviour stores at most MaxRows entries, all of them in
\* one target
InsertOne ==
    /\ constructed
    /\ \E target \in Targets, record \in RecordInputs, failAt \in 0..4, lastrowid \in BOOLEAN :
        LET r == Verb("insert_one", connection, config, driver_module, linkState, failAt)
            plan == VerbPlan("insert_one", connection, config, driver_module, linkState)
            took == Took(config, plan, failAt)
        IN  /\ failAt <= Len(plan)
            /\ took => (Len(store) < MaxRows /\ \A i \in 1..Len(store) : store[i].t = target)
            /\ ~lastrowid => (config.type = "relational" /\ r.ret = "value")
            /\ store' = IF ~took THEN store
                        ELSE IF config.type = "relational"
                             THEN SqlExecute(store, InsertStatement(target, record))
                        ELSE IF config.type = "nosql_document"
                             THEN DocInsertOne(store, target, record)
                        ELSE SearchIndex(store, target, record)
            /\ last' = CallWith("insert_one",
                                IF r.ret = "value" /\ lastrowid THEN "value" ELSE "None",
                                0, r.raised, r.caught, r.calls, r.driver, r.via, PyNone,
                                VerbInp(target, record, <<>>, <<>>, 0),
                                VerbOut(took, 0, <<>>))
    /\ connection' = HandleAfterProbe(connection, config, driver_module, linkState)
    /\ UNCHANGED <<instance, nOpened, released, linkState, env, withBlock, handed>>

\* find_all(table_or_collection, limit)
FindAll ==
    /\ constructed
    /\ \E target \in Targets, limit \in LimitInputs, failAt \in 0..4 :
        LET r == Verb("find_all", connection, config, driver_module, linkState, failAt)
            plan == VerbPlan("find_all", connection, config, driver_module, linkState)
        IN  /\ failAt <= Len(plan)
            /\ \E idxs \in (IF r.ret = "value" THEN Picks(config, store, target, limit)
                            ELSE {{}}) :
                  last' = CallWith("find_all", r.ret, 0, r.raised, r.caught, r.calls,
                                   r.driver, r.via, PyNone,
                                   VerbInp(target, <<>>, <<>>, <<>>, limit),
                                   VerbOut(FALSE, 0, RowsAt(store, idxs)))
    /\ connection' = HandleAfterProbe(connection, config, driver_module, linkState)
    /\ UNCHANGED <<instance, nOpened, released, linkState, env, withBlock, store, handed>>

\* update_one(table_or_collection, conditions, data)
UpdateOne ==
    /\ constructed
    /\ \E target \in Targets, conditions \in CondInputs, data \in DataInputs, failAt \in 0..4 :
        LET r == Verb("update_one", connection, config, driver_module, linkState, failAt)
            plan == VerbPlan("update_one", connection, config, driver_module, linkState)
            took == Took(config, plan, failAt)
            stmt == UpdateStatement(target, conditions, data)
            rejected == /\ plan # <<>>
                        /\ \/ config.type = "relational" /\ SqlRejects(stmt)
                           \/ config.type = "nosql_search"
                                /\ SearchRejects("update_one", conditions, data)
        IN  /\ failAt <= Len(plan)
            /\ rejected => failAt \in 1..SendsAt(config)
            /\ store' = IF ~took THEN store
                        ELSE IF config.type = "relational" THEN SqlExecute(store, stmt)
                        ELSE IF config.type = "nosql_document"
                             THEN DocUpdateOne(store, target, conditions, data)
                        ELSE SearchUpdate(store, target, conditions, data)
            /\ last' = CallWith("update_one", r.ret, 0, r.raised,
                                IF rejected /\ failAt = SendsAt(config)
                                THEN "statement" ELSE r.caught,
                                r.calls, r.driver, r.via, PyNone,
                                VerbInp(target, <<>>, conditions, data, 0),
                                VerbOut(took,
                                        IF r.ret # "value" THEN 0
                                        ELSE IF config.type = "relational"
                                             THEN SqlRowcount(store, stmt)
                                        ELSE IF config.type = "nosql_document"
                                             THEN DocModifiedCount(store, target, conditions, data)
                                        ELSE Cardinality(DocHits(store, target, conditions)),
                                        <<>>))
    /\ connection' = HandleAfterProbe(connection, config, driver_module, linkState)
    /\ UNCHANGED <<instance, nOpened, released, linkState, env, withBlock, handed>>

\* delete_one(table_or_collection, conditions)
DeleteOne ==
    /\ constructed
    /\ \E target \in Targets, conditions \in CondInputs, failAt \in 0..4 :
        LET r == Verb("delete_one", connection, config, driver_module, linkState, failAt)
            plan == VerbPlan("delete_one", connection, config, driver_module, linkState)
            took == Took(config, plan, failAt)
            stmt == DeleteStatement(target, conditions)
            rejected == /\ plan # <<>>
                        /\ \/ config.type = "relational" /\ SqlRejects(stmt)
                           \/ config.type = "nosql_search"
                                /\ SearchRejects("delete_one", conditions, <<>>)
        IN  /\ failAt <= Len(plan)
            /\ rejected => failAt \in 1..SendsAt(config)
            /\ store' = IF ~took THEN store
                        ELSE IF config.type = "relational" THEN SqlExecute(store, stmt)
                        ELSE IF config.type = "nosql_document"
                             THEN DocDeleteOne(store, target, conditions)
                        ELSE SearchDelete(store, target, conditions)
            /\ last' = CallWith("delete_one", r.ret, 0, r.raised,
                                IF rejected /\ failAt = SendsAt(config)
                                THEN "statement" ELSE r.caught,
                                r.calls, r.driver, r.via, PyNone,
                                VerbInp(target, <<>>, conditions, <<>>, 0),
                                VerbOut(took,
                                        IF r.ret # "value" THEN 0
                                        ELSE IF config.type = "relational"
                                             THEN SqlRowcount(store, stmt)
                                        ELSE IF config.type = "nosql_document"
                                             THEN DocDeletedCount(store, target, conditions)
                                        ELSE Cardinality(DocHits(store, target, conditions)),
                                        <<>>))
    /\ connection' = HandleAfterProbe(connection, config, driver_module, linkState)
    /\ UNCHANGED <<instance, nOpened, released, linkState, env, withBlock, handed>>

\* the search server refreshes its indices: what was indexed is found from
\* now on
Refresh ==
    /\ \E i \in 1..Len(store) : ~store[i].seen
    /\ store' = [i \in 1..Len(store) |-> Entry(store[i].t, store[i].row, TRUE)]
    /\ UNCHANGED <<instance, handle, env, withBlock, last, handed>>

\* the backends of DataSpec: one per family
DataBackends == {mysql, mongodb, elasticsearch, cassandra, milvus, warehouse}

\* what the database holds when the Connector connects
InitialStores ==
    {<<>>, <<Entry("t", Row(<<Item("a", 1)>>), TRUE)>>}

\* a Connector of one of the backends after a connect() that returned True,
\* with DB_PORT set
DataInit ==
    /\ constructed = TRUE
    /\ db_type \in DataBackends
    /\ config = GetKey(ConfigSource, db_type)
    /\ driver_module = [teardown |-> "close",
                        probe |-> IF config.type = "relational" THEN "is_connected" ELSE "none"]
    /\ connection = 1
    /\ nOpened = 1
    /\ released = {}
    /\ linkState = "alive"
    /\ env = <<Item(DB_PORT, <<"5","4","3","2">>)>>
    /\ scope = "out"
    /\ scopeHandle = 0
    /\ last = [op |-> "connect", ret |-> "True", h |-> 1, raised |-> "", caught |-> "",
               calls |-> <<Strategy(config, db_type)>>, driver |-> "ok",
               via |-> <<StrategyFn(config)>>,
               arg |-> GetOrNone(CoercePort(ResolveEnvVars(config.connection_params, env),
                                            config).params, "port"),
               prev |-> <<"other", "", "">>, inp |-> <<>>, out |-> <<>>]
    /\ store \in InitialStores
    /\ handed = PyNone

DataNext ==
    \/ InsertOne
    \/ FindAll
    \/ UpdateOne
    \/ DeleteOne
    \/ Refresh

DataSpec == DataInit /\ [][DataNext]_vars


(***************************************************************************)
(* Properties                                                              *)
(***************************************************************************)
Families ==
    {"relational", "nosql_document", "nosql_search", "nosql_wide_column",
     "vector_database", "data_warehouse"}

Connected == IsConnected(connection, config, driver_module, linkState)

\* C1, as stated: for every backend of one of the six families whose driver
\* accepts the resolved parameters (the port resolves, no parameter is
\* missing, the driver does not refuse), connect() returns True and an
\* is_connected() right after it returns True; an is_connected() right after
\* disconnect() returns False.
C1_AsStated ==
    /\ (last.op = "connect" /\ config.type \in Families
            /\ last.caught \notin {"port", "params", "driver"})
        => (last.ret = "True" /\ Connected)
    /\ (last.op = "is_connected" /\ last.prev[1] = "connect" /\ last.prev[2] = "True")
        => last.ret = "True"
    /\ (last.op = "is_connected" /\ last.prev[1] = "disconnect") => last.ret = "False"

\* C1, amended: the same for every backend of one of the six families that,
\* when relational, is named mysql, postgresql, oracle, db2, sqlserver or
\* netezza; a relational backend of another name gets False from connect().
C1_ConnectThenConnected ==
    /\ (last.op = "connect" /\ config.type \in Families
            /\ (config.type = "relational"
                  => db_type \in {mysql, postgresql, oracle, db2, sqlserver, netezza})
            /\ last.caught \notin {"port", "params", "driver"})
        => (last.ret = "True" /\ Connected)
    /\ (last.op = "connect" /\ config.type = "relational"
            /\ db_type \notin {mysql, postgresql, oracle, db2, sqlserver, netezza})
        => (last.ret = "False" /\ last.calls = <<>>)
    /\ (last.op = "is_connected" /\ last.prev[1] = "connect" /\ last.prev[2] = "True")
        => last.ret = "True"
    /\ (last.op = "is_connected" /\ last.prev[1] = "disconnect") => last.ret = "False"

\* an is_connected() that returned True right after a connect() that did
C1_Witness ==
    /\ last.op = "is_connected"
    /\ last.prev[1] = "connect" /\ last.prev[2] = "True"
    /\ last.ret = "True"
    /\ last.calls # <<>>

\* C2: connect() never lets an exception through: when parameter resolution,
\* the strategy or the driver fails, it returns False and the Connector
\* holds no handle, so is_connected() is False, whatever it held before.
C2_ConnectNeverRaises ==
    last.op = "connect" =>
        /\ last.raised = ""
        /\ last.ret \in {"True", "False"}
        /\ last.caught # "" => (last.ret = "False" /\ connection = 0 /\ ~Connected)

\* a connect() the driver refused, on a Connector that held a handle
C2_Witness ==
    /\ last.op = "connect"
    /\ last.caught = "driver"
    /\ connection = 0
    /\ (1..nOpened) \ released # {}

\* C3: a verb first asks is_connected(); when that is False it returns None
\* without a CRUD call on the driver; and whatever the family and whatever
\* the driver does, it returns a value or None and raises nothing.
C3_VerbsGuardedAndSilent ==
    last.op \in Verbs =>
        /\ last.raised = ""
        /\ last.ret \in {"value", "None"}
        /\ last.via = <<"is_connected">>
        /\ ~Connected =>
              /\ last.ret = "None"
              /\ \A i \in 1..Len(last.calls) : last.calls[i] \notin CrudCalls

\* a verb called on a handle that no longer answers: None, no CRUD call
C3_Witness ==
    /\ last.op \in Verbs
    /\ connection # 0
    /\ ~Connected
    /\ last.ret = "None"

\* the handles the driver opened for the Connector that disconnect() has not
\* let go of
Live == (1..nOpened) \ released

\* C4: after any sequence of calls on one Connector at most one handle is
\* live (opened and not released), also when connect() is called on a
\* Connector that already holds a handle.
C4_AtMostOneLive == Cardinality(Live) <= 1

\* C5: __enter__ calls connect() once and __exit__ calls disconnect() once on
\* every way out of the with-block, so that afterwards the Connector holds no
\* handle and the handle opened on entry has been released.
C5_ScopeReleases ==
    /\ last.op = "__enter__" => last.via = <<"connect">>
    /\ last.op = "__exit__" =>
          /\ last.via = <<"disconnect">>
          /\ connection = 0
          /\ scopeHandle # 0 => scopeHandle \in released

\* C6: disconnect() twice in succession raises nothing, is_connected() is
\* False after the first call and after the second, and the second call
\* makes no teardown call on the driver.
C6_DisconnectIdempotent ==
    last.op = "disconnect" =>
        /\ last.raised = ""
        /\ connection = 0
        /\ ~Connected
        /\ last.prev[1] = "disconnect" => last.calls = <<>>

\* a second disconnect() after one whose teardown call raised
C6_Witness ==
    /\ last.op = "disconnect"
    /\ last.prev = <<"disconnect", "None", "raised">>

\* C7: disconnect() on a Connector that holds a handle calls close() when the
\* handle has it, otherwise disconnect() when the handle has that, and ends
\* with the handle cleared and nothing raised, also when the teardown call
\* raises.
C7_DisconnectTearsDown ==
    [][(last'.op = "disconnect" /\ connection # 0) =>
          /\ last'.calls =
                (IF driver_module.teardown \in {"close", "both"} THEN <<"close">>
                 ELSE IF driver_module.teardown = "disconnect" THEN <<"disconnect">>
                 ELSE <<>>)
          /\ last'.raised = ""
          /\ connection' = 0]_vars

\* a disconnect() whose close() raised, on a handle that has both methods
C7_Witness ==
    /\ last.op = "disconnect"
    /\ driver_module.teardown = "both"
    /\ last.calls = <<"close">>
    /\ last.driver = "raised"
    /\ connection = 0

\* what C8 asks of an is_connected() call besides the probe of the family
C8_Common ==
    /\ last.raised = ""
    /\ connection = 0 => last.ret = "False"
    /\ last.driver = "raised" => last.ret = "False"
    /\ last.ret = "True" =>
          /\ connection # 0
          /\ config.type = "nosql_document" =>
                (last.calls = <<"admin.command(ping)">> /\ last.driver = "ok")
          /\ config.type = "nosql_search" =>
                (last.calls = <<"ping">> /\ last.driver = "ok" /\ linkState = "alive")

\* C8, as stated: is_connected() returns True only if a handle exists and the
\* probe of the family succeeds, which on the relational family is the
\* driver's own is-alive check; False without a handle and when the probe
\* raises; it raises nothing.
C8_AsStated ==
    last.op = "is_connected" =>
        /\ C8_Common
        /\ (last.ret = "True" /\ config.type = "relational") =>
              /\ last.calls \in {<<"is_connected">>, <<"closed">>}
              /\ last.driver = "ok"
              /\ linkState = "alive"

\* C8, amended: on the relational family the probe is the handle's
\* is_connected(), else its closed flag, when the handle has one of them; a
\* relational handle with neither counts as connected by its presence.
C8_ProbeByFamily ==
    last.op = "is_connected" =>
        /\ C8_Common
        /\ (last.ret = "True" /\ config.type = "relational"
                /\ driver_module.probe # "none") =>
              /\ last.calls = <<driver_module.probe>>
              /\ last.driver = "ok"
              /\ linkState = "alive"
        /\ (connection # 0 /\ config.type = "relational" /\ driver_module.probe = "none")
              => (last.ret = "True" /\ last.calls = <<>>)

\* True from a relational handle that has no is-alive check and is dead
C8_Witness ==
    /\ last.op = "is_connected"
    /\ last.ret = "True"
    /\ config.type = "relational"
    /\ driver_module.probe = "none"
    /\ linkState = "dead"

\* C9: get_connection() returns the handle exactly when is_connected() is
\* True and None otherwise; while is_connected() is True the handle is not
\* None.
C9_GetConnection ==
    /\ Connected => connection # 0
    /\ last.op = "get_connection" =>
          /\ last.raised = ""
          /\ last.h = (IF Connected THEN connection ELSE 0)

\* get_connection() returning None while a handle that stopped answering is held
C9_Witness ==
    /\ last.op = "get_connection"
    /\ connection # 0
    /\ last.h = 0

\* C10, as stated: constructing a Connector for a name that is not a backend
\* of the configuration fails with ValueError, and no driver call is made.
C10_AsStated ==
    (last.op = "construct" /\ ~HasKey(ConfigSource, last.arg.s)) =>
        /\ last.raised = "ValueError"
        /\ ~constructed
        /\ last.calls = <<>>
        /\ nOpened = 0

\* C10, amended: the name is looked up in lower case: construction fails so
\* for a name whose lower-case form is not a backend of the configuration.
C10_UnknownBackendFails ==
    (last.op = "construct" /\ ~HasKey(ConfigSource, Lower(last.arg.s))) =>
        /\ last.raised = "ValueError"
        /\ ~constructed
        /\ last.calls = <<>>
        /\ nOpened = 0

\* the constructor called with "unknownDb"
C10_Witness ==
    /\ last.op = "construct"
    /\ last.arg.s = unknownDb
    /\ last.raised = "ValueError"

\* C11: constructing a Connector for a backend whose configured family is
\* not one of the six fails at construction: no instance with another family
\* exists, and connect() is never reached for one.
C11_UnrecognisedFamilyRejected ==
    /\ constructed => config.type \in Families
    /\ last.op \in {"connect", "__enter__"} => config.type \in Families

\* C12: port coercion in connect(): for every resolved value of a present
\* port parameter, a numeric string becomes the corresponding integer; a
\* value that cannot be coerced (the empty string of an unset placeholder
\* included) is replaced by default_port when that is configured, and
\* otherwise connect() fails on the configuration; so the port handed to a
\* connection strategy is always an integer.
C12_PortCoerced ==
    (last.op = "connect" /\ HasKey(config.connection_params, "port")) =>
        LET port == GetKey(ResolveEnvVars(config.connection_params, env), "port")
            numeric == port.kind = "str" /\ port.s # <<>>
                          /\ \A i \in 1..Len(port.s) : IsDigit(port.s[i])
        IN  /\ numeric => last.arg = PyInt(DigitsToInt(port.s))
            /\ (~numeric /\ port.kind # "int") =>
                  IF config.has_default_port
                  THEN last.arg = config.default_port
                  ELSE last.caught = "port" /\ last.ret = "False" /\ last.via = <<>>
            /\ last.via # <<>> => last.arg.kind = "int"

\* a string of the exact shape ${NAME}: "${", a name without "}", and "}"
C13_ExactShape(s) ==
    /\ Len(s) >= 3
    /\ s[1] = "$" /\ s[2] = "{" /\ s[Len(s)] = "}"
    /\ \A i \in 3..(Len(s) - 1) : s[i] # "}"

\* the current value of a secret, the empty string when it is unset
C13_Secret(name) ==
    IF \E i \in 1..Len(env) : env[i].k = name
    THEN env[CHOOSE i \in 1..Len(env) : env[i].k = name].v
    ELSE <<>>

\* the rule for a string v and what it resolves to, w
C13_Rule(v, w) ==
    IF C13_ExactShape(v.s)
    THEN w = PyStr(C13_Secret(SubSeq(v.s, 3, Len(v.s) - 1)))
    ELSE w = v

\* C13: placeholder resolution over every connection-parameter mapping: a
\* string of the exact shape ${NAME} resolves to the current value of secret
\* NAME, or to the empty string when NAME is unset; every other string passes
\* through unchanged; a list is resolved element by element with the same
\* rule; the keys are unchanged.
C13_PlaceholdersResolved ==
    last.op = "_resolve_env_vars" =>
        /\ last.raised = ""
        /\ Len(last.out) = Len(last.inp)
        /\ \A i \in 1..Len(last.inp) :
              /\ last.out[i].k = last.inp[i].k
              /\ last.inp[i].v.kind = "str" => C13_Rule(last.inp[i].v, last.out[i].v)
              /\ last.inp[i].v.kind = "list" =>
                    /\ last.out[i].v.kind = "list"
                    /\ Len(last.out[i].v.items) = Len(last.inp[i].v.items)
                    /\ \A j \in 1..Len(last.inp[i].v.items) :
                          last.inp[i].v.items[j].kind = "str" =>
                              C13_Rule(last.inp[i].v.items[j], last.out[i].v.items[j])

\* an entry satisfies conditions: it has each field with exactly that value
C14_Satisfies(row, conditions) ==
    \A i \in 1..Len(conditions) : row[conditions[i].k] = conditions[i].v

\* the positions of the entries of a target that satisfy conditions
C14_Matching(st, target, conditions) ==
    {i \in 1..Len(st) : st[i].t = target /\ C14_Satisfies(st[i].row, conditions)}

\* st without the entries at the positions gone, the others as they were
C14_Without(st, gone) ==
    LET kept == (1..Len(st)) \ gone
    IN  [j \in 1..Cardinality(kept) |->
            st[CHOOSE i \in kept : Cardinality({k \in kept : k < i}) = j - 1]]

C15_Updated(row, data) ==
    [f \in Fields |->
        IF \E i \in 1..Len(data) : data[i].k = f
        THEN data[CHOOSE i \in 1..Len(data) : data[i].k = f].v
        ELSE row[f]]

C16_AsStated ==
    [][(/\ last'.op = "update_one"
        /\ config.type = "nosql_document"
        /\ last'.caught = "") =>
          LET hits == C14_Matching(store, last'.inp.target, last'.inp.conditions)
          IN  /\ last'.ret = "value"
              /\ Len(store') = Len(store)
              /\ \A i \in 1..Len(store) :
                    store'[i] = IF i \in hits
                                THEN [store[i] EXCEPT !.row = C15_Updated(@, last'.inp.data)]
                                ELSE store[i]
              /\ last'.out.count = Cardinality({i \in 1..Len(store) : store'[i] # store[i]})]_vars

\* C16, amended: it sets the data fields on the first document that
\* satisfies the conditions and on no other, and returns the number of
\* documents modified, which is 1 or 0.
C16_UpdateOneDocument ==
    [][(/\ last'.op = "update_one"
        /\ config.type = "nosql_document"
        /\ last'.caught = "") =>
          LET hits == C14_Matching(store, last'.inp.target, last'.inp.conditions)
              first == {i \in hits : \A j \in hits : i <= j}
          IN  /\ last'.ret = "value"
              /\ Len(store') = Len(store)
              /\ \A i \in 1..Len(store) :
                    store'[i] = IF i \in first
                                THEN [store[i] EXCEPT !.row = C15_Updated(@, last'.inp.data)]
                                ELSE store[i]
              /\ last'.out.count = Cardinality({i \in 1..Len(store) : store'[i] # store[i]})
              /\ last'.out.count \in {0, 1}]_vars

\* an update_one on the document family that modified one document and left
\* another that satisfies its conditions as it was
C16_Witness ==
    /\ last.op = "update_one"
    /\ config.type = "nosql_document"
    /\ last.out.count = 1
    /\ \E i \in C14_Matching(store, last.inp.target, last.inp.conditions) :
          C15_Updated(store[i].row, last.inp.data) # store[i].row

\* the result of a find_all has a record with every field of record
C17_Contains(rows, record) ==
    \E j \in 1..Len(rows) : \A i \in 1..Len(record) : rows[j][record[i].k] = record[i].v

\* a find_all that follows an insert_one into the same target which
\* succeeded, on a family that has the verbs, and does not fail itself
C17_RoundTrip ==
    /\ last.op = "insert_one"
    /\ last.out.took /\ last.caught = ""
    /\ config.type \in {"relational", "nosql_document", "nosql_search"}
    /\ last'.op = "find_all"
    /\ last'.inp.target = last.inp.target
    /\ last'.caught = ""

\* C17, as stated: for every target, record and limit >= 1 and whatever the
\* target holds, a successful insertOne(target, record) followed by
\* findAll(target, limit) returns a result with a record that has every
\* field of record with the same value.
C17_AsStated ==
    [][C17_RoundTrip =>
          (last'.ret = "value" /\ C17_Contains(last'.out.rows, last.inp.record))]_vars

\* C17, amended: so it is when the target then holds no more than limit
\* entries and, on the search family, the index has been refreshed since
\* the insert.
C17_InsertThenFind ==
    [][(/\ C17_RoundTrip
        /\ Cardinality({i \in 1..Len(store) : store[i].t = last.inp.target}) <= last'.inp.limit
        /\ \A i \in 1..Len(store) : store[i].seen) =>
          (last'.ret = "value" /\ C17_Contains(last'.out.rows, last.inp.record))]_vars

\* a find_all on the search family that returned two entries, one of them
\* with a = 2 and b = 1
C17_Witness ==
    /\ last.op = "find_all"
    /\ config.type = "nosql_search"
    /\ last.ret = "value"
    /\ Len(last.out.rows) = 2
    /\ C17_Contains(last.out.rows, <<Item("a", 2), Item("b", 1)>>)

\* C18: on a connected backend of the wide-column, vector or warehouse
\* family each verb returns None, makes no call on the handle and leaves
\* the stored data as it is.
C18_UnsupportedFamilies ==
    [][(/\ last'.op \in Verbs
        /\ config.type \in {"nosql_wide_column", "vector_database", "data_warehouse"}
        /\ Connected) =>
          /\ last'.ret = "None"
          /\ last'.raised = ""
          /\ last'.calls = <<>>
          /\ store' = store]_vars

\* an update_one on the warehouse family over stored data
C18_Witness ==
    /\ last.op = "update_one"
    /\ config.type = "data_warehouse"
    /\ Connected
    /\ last.inp.conditions # <<>> /\ last.inp.data # <<>>
    /\ store # <<>>
    /\ last.ret = "None"

\* the _connect_* method of each family
C19_FamilyStrategy ==
    [f \in Families |->
        CASE f = "relational" -> "_connect_relational"
          [] f = "nosql_document" -> "_connect_nosql_document"
          [] f = "nosql_search" -> "_connect_nosql_search"
          [] f = "nosql_wide_column" -> "_connect_nosql_wide_column"
          [] f = "vector_database" -> "_connect_vector_database"
          [] f = "data_warehouse" -> "_connect_data_warehouse"]

\* the driver entry point of each family but the relational one
C19_EntryPoint ==
    [f \in Families \ {"relational"} |->
        CASE f = "nosql_document" -> "MongoClient"
          [] f = "nosql_search" -> "Elasticsearch"
          [] f = "nosql_wide_column" -> "Cluster.connect"
          [] f = "vector_database" -> "connections.connect"
          [] f = "data_warehouse" -> "connect(conn_str)"]

\* C19, as stated: every connect() that passes parameter resolution invokes
\* exactly one connection strategy, the one of the backend's family; the
\* relational strategy calls the keyword-argument connect for mysql,
\* postgresql and oracle and the connection-string connect for every other
\* relational backend, the warehouse strategy always the connection-string
\* connect, and no entry point of another family is called.
C19_AsStated ==
    (last.op = "connect" /\ last.caught # "port") =>
        /\ Len(last.via) = 1
        /\ config.type \in Families
        /\ last.via = <<C19_FamilyStrategy[config.type]>>
        /\ config.type = "relational" =>
              last.calls = (IF db_type \in {mysql, postgresql, oracle}
                            THEN <<"connect(**params)">> ELSE <<"connect(conn_str)">>)
        /\ config.type = "data_warehouse" => last.calls = <<"connect(conn_str)">>
        /\ config.type \in Families \ {"relational"} =>
              \A i \in 1..Len(last.calls) : last.calls[i] = C19_EntryPoint[config.type]

\* C19, amended: the connection-string connect is used for db2, sqlserver
\* and netezza; a relational backend of another name reaches the relational
\* strategy, which calls no entry point, and connect() returns False; for a
\* backend of an unrecognised family no strategy is invoked and connect()
\* returns False.
C19_OneStrategy ==
    (last.op = "connect" /\ last.caught # "port") =>
        /\ config.type \in Families => last.via = <<C19_FamilyStrategy[config.type]>>
        /\ config.type \notin Families =>
              (last.via = <<>> /\ last.calls = <<>> /\ last.ret = "False")
        /\ config.type = "relational" =>
              /\ db_type \in {mysql, postgresql, oracle} =>
                    last.calls = <<"connect(**params)">>
              /\ db_type \in {db2, sqlserver, netezza} =>
                    last.calls = <<"connect(conn_str)">>
              /\ db_type \notin {mysql, postgresql, oracle, db2, sqlserver, netezza} =>
                    (last.calls = <<>> /\ last.ret = "False")
        /\ config.type = "data_warehouse" => last.calls = <<"connect(conn_str)">>
        /\ config.type \in Families \ {"relational"} =>
              \A i \in 1..Len(last.calls) : last.calls[i] = C19_EntryPoint[config.type]

\* a connect() of the db2 backend through the connection-string connect
C19_Witness ==
    /\ last.op = "connect"
    /\ db_type = db2
    /\ last.via = <<"_connect_relational">>
    /\ last.calls = <<"connect(conn_str)">>
    /\ last.ret = "True"

\* a value the claim calls falsy: empty string, 0, none, empty list
C20_Falsy(v) == v \in {PyStr(<<>>), PyInt(0), PyNone} \/ v = PyList(<<>>)

\* the text of the truthy values of ParamInputs
C20_Text(v) ==
    CASE v.kind = "str" -> v.s
      [] v = PyInt(5432) -> <<"5","4","3","2">>
      [] v = PyInt(0 - 1) -> <<"-","1">>
      [] v = PyList(<<PyStr(RefH), PyStr(<<"d","b">>), PyInt(7)>>) ->
            <<"[", "'", "$", "{", "H", "}", "'", ",", " ", "'", "d", "b", "'", ",", " ", "7", "]">>
      [] v = PyList(<<PyStr(RefHP), PyNone>>) ->
            <<"[", "'", "$", "{", "H", "}", ":", "$", "{", "P", "}", "'", ",", " ", "None", "]">>

\* the string the claim describes, from the first parameter on
RECURSIVE C20_Expected(_)
C20_Expected(params) ==
    IF params = <<>> THEN <<>>
    ELSE LET pair == <<params[1].k, "=">> \o C20_Text(params[1].v)
             rest == C20_Expected(Tail(params))
         IN  IF C20_Falsy(params[1].v) THEN rest
             ELSE IF rest = <<>> THEN pair
             ELSE pair \o <<";">> \o rest

\* C20: the connection-string builder returns the key=value pairs of exactly
\* the parameters whose value is truthy, in key order, joined by ";" with no
\* separator before the first or after the last; a parameter with a falsy
\* value contributes nothing, and a mapping without a truthy value gives the
\* empty string.
C20_ConnectionString ==
    last.op = "_build_connection_string" =>
        /\ last.out = C20_Expected(last.inp)
        /\ last.out # <<>> => (last.out[1] # ";" /\ last.out[Len(last.out)] # ";")
        /\ (\A i \in 1..Len(last.inp) : C20_Falsy(last.inp[i].v)) => last.out = <<>>
        /\ Cardinality({i \in 1..Len(last.out) : last.out[i] = "="})
              = Cardinality({i \in 1..Len(last.inp) : ~C20_Falsy(last.inp[i].v)})

\* the string built from a mapping with a falsy value between two truthy ones
C20_Witness ==
    /\ last.op = "_build_connection_string"
    /\ Len(last.inp) = 3
    /\ ~C20_Falsy(last.inp[1].v) /\ C20_Falsy(last.inp[2].v) /\ ~C20_Falsy(last.inp[3].v)
    /\ Cardinality({i \in 1..Len(last.out) : last.out[i] = ";"}) = 1

\* a relational insert_one, update_one or delete_one that reached
\* cursor.execute
C21_Sent ==
    /\ last.op \in {"insert_one", "update_one", "delete_one"}
    /\ config.type = "relational"
    /\ \E i \in 1..Len(last.calls) : last.calls[i] = "execute"

\* the query of that call and the parameters it was executed with
C21_Query ==
    IF last.op = "insert_one" THEN InsertQuery(last.inp.target, last.inp.record)
    ELSE IF last.op = "update_one"
         THEN UpdateQuery(last.inp.target, last.inp.conditions, last.inp.data)
    ELSE DeleteQuery(last.inp.target, last.inp.conditions)

C21_Params ==
    IF last.op = "insert_one" THEN InsertStatement(last.inp.target, last.inp.record).params
    ELSE IF last.op = "update_one"
         THEN UpdateStatement(last.inp.target, last.inp.conditions, last.inp.data).params
    ELSE DeleteStatement(last.inp.target, last.inp.conditions).params

\* the placeholders from + 1 .. from + Len(d) stand for the keys of d, in key
\* order, and the parameters at these places are the values of d
C21_Carries(cols, params, d, from) ==
    \A i \in 1..Len(d) : cols[from + i] = d[i].k /\ params[from + i] = d[i].v

\* C21: a relational insert_one, update_one or delete_one executes a query
\* with as many placeholders as parameters; insert_one has one placeholder
\* per field of the record and passes the values in key order, update_one has
\* one per data field and then one per condition and passes the data values
\* and then the condition values, delete_one passes the condition values; the
\* i-th parameter is the value of the column the i-th placeholder stands for;
\* and a call that returns without a failure has called commit after execute.
C21_PlaceholdersAligned ==
    C21_Sent =>
        LET cols == MarkColumns(C21_Query)
            params == C21_Params
            inp == last.inp
        IN  /\ Len(cols) = Len(params)
            /\ last.op = "insert_one"
                => (Len(params) = Len(inp.record) /\ C21_Carries(cols, params, inp.record, 0))
            /\ last.op = "update_one"
                => /\ Len(params) = Len(inp.data) + Len(inp.conditions)
                   /\ C21_Carries(cols, params, inp.data, 0)
                   /\ C21_Carries(cols, params, inp.conditions, Len(inp.data))
            /\ last.op = "delete_one"
                => (Len(params) = Len(inp.conditions)
                        /\ C21_Carries(cols, params, inp.conditions, 0))
            /\ (last.caught = "" /\ last.raised = "")
                => \E i, j \in 1..Len(last.calls) :
                        i < j /\ last.calls[i] = "execute" /\ last.calls[j] = "commit"

\* an update_one with a data field and two conditions that changed a row
C21_Witness ==
    /\ C21_Sent
    /\ last.op = "update_one"
    /\ Len(last.inp.data) = 1
    /\ Len(last.inp.conditions) = 2
    /\ last.caught = ""
    /\ last.out.took
    /\ last.out.count = 1

\* the BackendConfig the Connector loaded at construction
C22_Loaded == GetKey(ConfigSource, db_type)

\* the port that the loaded connection parameters resolve to under an
\* environment
C22_Port(e) ==
    GetOrNone(CoercePort(ResolveEnvVars(C22_Loaded.connection_params, e), C22_Loaded).params,
              "port")

\* C22: every connect() that calls the driver hands it the port that the
\* loaded connection parameters resolve to in the environment of that call,
\* whatever earlier calls of connect() handed it; and after every connect(),
\* disconnect(), is_connected() and verb the configuration of the Connector
\* is the loaded one, placeholders and port value as they were.
C22_RecomputedEveryConnect ==
    [][/\ config' = C22_Loaded
       /\ (last'.op = "connect" /\ last'.calls # <<>>) => last'.arg = C22_Port(env)]_vars

\* a connect() that returned True after a disconnect(), with a port other
\* than the one the first connect() handed the driver, on a configuration
\* that still holds the placeholder
C22_Witness ==
    /\ last.op = "connect"
    /\ last.ret = "True"
    /\ released # {}
    /\ handed # PyNone
    /\ last.arg # handed
    /\ last.arg = C22_Port(env)
    /\ GetKey(config.connection_params, "port") = PyStr(DB_PORT_REF)

\* the calls that only use the handle
C23_Users == {"is_connected", "get_connection"} \cup Verbs

\* C23: is_connected(), get_connection() and the four verbs leave the handle
\* of the Connector as it was, also when the probe fails or a driver call of
\* the verb raises: self.connection is the same handle, or None, before and
\* after, and no handle was opened or released.
C23_HandleKept ==
    [][last'.op \in C23_Users =>
          /\ connection' = connection
          /\ nOpened' = nOpened
          /\ released' = released]_vars

\* a verb on a held handle whose driver call raised after a probe that
\* answered
C23_Witness ==
    /\ last.op \in Verbs
    /\ last.caught = "driver"
    /\ last.ret = "None"
    /\ Len(last.calls) > 1
    /\ connection # 0

\* the cursors a call opened and did not close: the calls of cursor() that
\* returned, less the calls of cursor.close()
C24_LeftOpen(call) ==
    Cardinality({i \in 1..Len(call.calls) :
                    call.calls[i] = "cursor" /\ (i < Len(call.calls) \/ call.driver = "ok")})
        - Cardinality({i \in 1..Len(call.calls) : call.calls[i] = "cursor.close"})

\* C24: when a relational insert_one, find_all, update_one or delete_one
\* returns, every cursor it opened has been closed, whether the statement
\* went through or execute, commit or fetchall raised and the verb returned
\* None.
C24_CursorsClosed ==
    (last.op \in Verbs /\ config.type = "relational") => C24_LeftOpen(last) = 0
====
